---- MODULE Spec2Model ----
(***************************************************************************)
(* Model of the two core mechanisms of the DevMind backend:                *)
(*   - DatabaseManager.execute_with_retry (src/Backend/main.py), the       *)
(*     SQLite retry-with-backoff wrapper;                                  *)
(*   - VSCodeBridgeManager (src/Backend/main.py and                        *)
(*     src/Backend/main_multi_model.py), the WebSocket bridge manager.     *)
(* Each awaited call of the Python code is one step of the model.          *)
(***************************************************************************)
EXTENDS Integers, Sequences, FiniteSets, TLC

VARIABLES
    \* ---- DatabaseManager.execute_with_retry, one call at a time ----
    db_pc,          \* "idle" | "try" | "open" | "handle" | "sleep" | "done"
    attempt,        \* the loop variable of `for attempt in range(MAX_RETRIES)`
    fetch_one,      \* argument fetch_one
    fetch_all,      \* argument fetch_all
    commit,         \* argument commit
    last_exception, \* local last_exception (None or an exception)
    db_exc,         \* the exception in flight to the except clauses (or None)
    failures,       \* the exception each failed attempt of this call raised
    conn_open,      \* an aiosqlite connection of this call is open
    closes,         \* connections this call has closed
    connects,       \* aiosqlite.connect calls made by this call
    sleeps,         \* the asyncio.sleep delays taken by this call, in ms
    sleep_after,    \* connects made when each of those sleeps started
    fetched,        \* rows the cursor of the last executed statement held
    committed,      \* db.commit() calls of this call that succeeded
    discarded,      \* rows this call inserted and lost when the connection closed
    commit_errors,  \* db.commit() calls of this call that raised
    db_log,         \* logger records of this call
    db_out,         \* how the call ended: None, a return or a raise
    db_calls,       \* calls started so far
    \* ---- VSCodeBridgeManager and its callers ----
    variant,        \* which module's manager: "main" | "multi"
    ws_client,      \* self.ws_client: None or a socket id
    is_connected,   \* self.is_connected
    phase,          \* "new" | "serving" | "stopped" | "stopped_twice"
    socks,          \* sockets opened so far: id -> [open, peer_open, wire, pending, inbox]
    pc,             \* position of each send_prompt caller
    call,           \* per caller: the running call's local state
    out,            \* per caller: how its last call ended
    next_req,       \* source of request ids (datetime.now().isoformat())
    mgr_calls,      \* calls started so far that use the manager
    \* ---- monitoring_service.py: ConnectionManager and /ws/monitor ----
    active_connections, \* manager.active_connections, a list of websockets
    link,           \* per websocket: "none" | "up" | "closed" | "dead"
    mon_pc,         \* per websocket: position of its websocket_monitor handler
    bc              \* per broadcast task: the locals of its broadcast() call

dbVars == <<db_pc, attempt, fetch_one, fetch_all, commit, last_exception, db_exc,
            failures, conn_open, closes, connects, sleeps, sleep_after, fetched, committed, discarded, commit_errors,
            db_log, db_out, db_calls>>
brVars == <<variant, ws_client, is_connected, phase, socks, pc, call, out,
            next_req, mgr_calls>>
monVars == <<active_connections, link, mon_pc, bc>>
vars == <<dbVars, brVars, monVars>>

\* Python's None, for an exception and for an outcome
NoExc == [cls |-> "None", msg |-> <<>>]
NoOut == [kind |-> "none"]

(***************************************************************************)
(* Program constants                                                       *)
(***************************************************************************)
MAX_RETRIES == 3
\* RETRY_DELAY = 0.1 seconds, kept in milliseconds
RETRY_DELAY == 100

(***************************************************************************)
(* Bounds of the model                                                     *)
(***************************************************************************)
MaxDbCalls == 2
\* concurrent callers of the shared bridge_manager
NumCallers == 2
\* requests in one run that reach the manager
MaxCalls == 2
\* websockets.connect calls that succeed in one run
MaxSockets == 2
\* longest prompt of a chat request, in characters
MaxPromptLen == 2
\* websockets that connect to /ws/monitor in one run
NumClients == 2
\* broadcast() calls that can run side by side
NumBroadcasters == 2

(***************************************************************************)
(* Exceptions an attempt can raise. A message is the sequence of its       *)
(* words; the classifier lower-cases it and searches for substrings.       *)
(***************************************************************************)
MsgLocked      == <<"database", "is", "locked">>
MsgTableLocked == <<"database", "table", "is", "locked">>
MsgMalformed   == <<"database", "disk", "image", "is", "malformed">>
MsgNoTable     == <<"no", "such", "table", "jira_tmp_prompts">>
MsgIO          == <<"disk", "I/O", "error">>
MsgCantOpen    == <<"unable", "to", "open", "database", "file">>
MsgNoConn      == <<"no", "active", "connection">>
MsgNoFile      == <<"Database", "file", "not", "found">>

DatabaseErrors ==
    {[cls |-> "DatabaseError", msg |-> m] :
        m \in {MsgLocked, MsgTableLocked, MsgMalformed, MsgNoTable, MsgIO, MsgCantOpen}}
OtherErrors == {[cls |-> "Exception", msg |-> MsgNoConn]}
FileNotFound == [cls |-> "FileNotFoundError", msg |-> MsgNoFile]

\* str.lower() on one word
LowerWord(w) ==
    CASE w = "I/O" -> "i/o"
      [] w = "Database" -> "database"
      [] OTHER -> w

\* str(e).lower()
Lower(m) == [i \in 1..Len(m) |-> LowerWord(m[i])]

\* `sig in text`: sig occurs as a contiguous run of text
Contains(text, sig) ==
    \E i \in 0..(Len(text) - Len(sig)) :
        \A j \in 1..Len(sig) : text[i + j] = sig[j]

\* Mutant of Classify: the "no such table" branch is missing.
Classify_NoSchemaBranch(e) ==
    IF e.cls = "FileNotFoundError" THEN "file"
    ELSE IF e.cls = "DatabaseError" THEN
        IF Contains(Lower(e.msg), <<"database", "is", "locked">>) THEN "locked"
        ELSE IF Contains(Lower(e.msg), <<"database", "disk", "image", "is", "malformed">>)
            THEN "malformed"
        ELSE "other_db"
    ELSE "unexpected"

\* The branch of the except clauses an exception takes.
Classify(e) ==
    IF e.cls = "FileNotFoundError" THEN "file"
    ELSE IF e.cls = "DatabaseError" THEN
        IF Contains(Lower(e.msg), <<"database", "is", "locked">>) THEN "locked"
        ELSE IF Contains(Lower(e.msg), <<"database", "disk", "image", "is", "malformed">>)
            THEN "malformed"
        ELSE IF Contains(Lower(e.msg), <<"no", "such", "table">>) THEN "no_table"
        ELSE "other_db"
    ELSE "unexpected"

RECURSIVE Pow2(_)
Pow2(n) == IF n = 0 THEN 1 ELSE 2 * Pow2(n - 1)

\* Mutant of BackoffDelay: the same delay before every retry.
BackoffDelay_Constant(a) == RETRY_DELAY

\* RETRY_DELAY * (2 ** attempt)
BackoffDelay(a) == RETRY_DELAY * Pow2(a)

\* Mutant of AttemptsRemain: off by one, a sleep follows the last attempt.
AttemptsRemain_OffByOne(a) == a < MAX_RETRIES

\* attempt < MAX_RETRIES - 1
AttemptsRemain(a) == a < MAX_RETRIES - 1

(***************************************************************************)
(* The rows a statement can yield, and what the call returns from them.    *)
(***************************************************************************)
RowSets == {<<>>, <<"r1">>, <<"r1", "r2">>}

\* Mutant of FetchResult: fetch_all is tested before fetch_one.
FetchResult_AllFirst(fo, fa, rs) ==
    IF fa THEN [shape |-> "rows", rows |-> rs]
    ELSE IF fo THEN (IF rs = <<>> THEN [shape |-> "none"] ELSE [shape |-> "row", row |-> rs[1]])
    ELSE [shape |-> "none"]

\* result = None; fetchone() if fetch_one; elif fetch_all: fetchall()
FetchResult(fo, fa, rs) ==
    IF fo THEN (IF rs = <<>> THEN [shape |-> "none"] ELSE [shape |-> "row", row |-> rs[1]])
    ELSE IF fa THEN [shape |-> "rows", rows |-> rs]
    ELSE [shape |-> "none"]

\* The exceptions the call raises, by the text they start with.
ErrCorrupted == "Database is corrupted."
ErrSchema    == "Required database tables not found."
ErrFile      == "Database file not accessible."
ErrGeneric   == "Database error:"
ErrConnFail  == "Database connection failed:"
ErrExhausted == "Database operation failed after"

\* raise Exception(f"<text> {cause}"); attempts is the attempt count the
\* text names (0: the text names none)
Raise(text, n, cause) ==
    [kind |-> "raise", text |-> text, attempts |-> n, cause |-> cause]

Return(v) == [kind |-> "return", value |-> v]

LogRec(level, a) == [level |-> level, attempt |-> a]

(***************************************************************************)
(* DatabaseManager.execute_with_retry                                      *)
(***************************************************************************)
DbInit ==
    /\ db_pc = "idle"
    /\ attempt = 0
    /\ fetch_one = FALSE
    /\ fetch_all = FALSE
    /\ commit = FALSE
    /\ last_exception = NoExc
    /\ db_exc = NoExc
    /\ failures = <<>>
    /\ conn_open = FALSE
    /\ closes = 0
    /\ connects = 0
    /\ sleeps = <<>>
    /\ sleep_after = <<>>
    /\ fetched = <<>>
    /\ committed = 0
    /\ discarded = 0
    /\ commit_errors = 0
    /\ db_log = <<>>
    /\ db_out = NoOut
    /\ db_calls = 0

\* The call starts: last_exception = None, the loop is entered with attempt 0.
DbCall ==
    /\ db_pc \in {"idle", "done"}
    /\ db_calls < MaxDbCalls
    /\ \E fo \in BOOLEAN, fa \in BOOLEAN, cm \in BOOLEAN :
        /\ fetch_one' = fo
        /\ fetch_all' = fa
        /\ commit' = cm
    /\ db_pc' = "try"
    /\ attempt' = 0
    /\ last_exception' = NoExc
    /\ db_exc' = NoExc
    /\ failures' = <<>>
    /\ connects' = 0
    /\ sleeps' = <<>>
    /\ sleep_after' = <<>>
    /\ fetched' = <<>>
    /\ committed' = 0
    /\ discarded' = 0
    /\ commit_errors' = 0
    /\ db_log' = <<>>
    /\ db_out' = NoOut
    /\ db_calls' = db_calls + 1
    /\ closes' = 0
    /\ UNCHANGED conn_open
    /\ UNCHANGED <<brVars, monVars>>

\* os.path.exists(self.db_path) is false: FileNotFoundError is raised.
DbFileMissing ==
    /\ db_pc = "try"
    /\ db_pc' = "handle"
    /\ db_exc' = FileNotFound
    /\ UNCHANGED <<attempt, fetch_one, fetch_all, commit, last_exception, failures, conn_open,
                   closes, connects, sleeps, sleep_after, fetched, committed, discarded, commit_errors, db_log,
                   db_out, db_calls>>
    /\ UNCHANGED <<brVars, monVars>>

\* The file exists and aiosqlite.connect is called: it opens a connection or raises.
DbConnect ==
    /\ db_pc = "try"
    /\ connects' = connects + 1
    /\ \/ /\ conn_open' = TRUE
          /\ db_pc' = "open"
          /\ UNCHANGED db_exc
       \/ /\ \E e \in DatabaseErrors \cup OtherErrors : db_exc' = e
          /\ db_pc' = "handle"
          /\ UNCHANGED conn_open
    /\ UNCHANGED <<attempt, fetch_one, fetch_all, commit, last_exception, failures, closes,
                   sleeps, sleep_after, fetched, committed, discarded, commit_errors, db_log, db_out, db_calls>>
    /\ UNCHANGED <<brVars, monVars>>

\* Mutant of AsyncWithExit: leaving the block leaves the connection open.
AsyncWithExit_Leaks == UNCHANGED <<conn_open, closes>>

\* Leaving the `async with` block, by return or by an exception, closes the
\* connection it opened.
AsyncWithExit ==
    /\ conn_open' = FALSE
    /\ closes' = closes + 1

\* The body of the `async with`: pragmas, execute, fetch, cursor.close, commit,
\* return. It succeeds, or a statement raises; either way the block is left.
DbRunOk ==
    /\ db_pc = "open"
    /\ \E rs \in RowSets :
        /\ fetched' = rs
        /\ db_out' = Return(FetchResult(fetch_one, fetch_all, rs))
    /\ committed' = IF commit THEN committed + 1 ELSE committed
    /\ UNCHANGED <<discarded, commit_errors>>
    /\ AsyncWithExit
    /\ db_pc' = "done"
    /\ UNCHANGED <<attempt, fetch_one, fetch_all, commit, last_exception, db_exc, failures,
                   connects, sleeps, sleep_after, db_log, db_calls>>
    /\ UNCHANGED <<brVars, monVars>>

\* Where the body of the `async with` can raise: before the statement has
\* taken effect (a pragma, or the statement itself), after it (fetch,
\* cursor.close), or in db.commit(), which is called only when commit is set.
FailPoints == {"statement", "after_statement"} \cup (IF commit THEN {"commit"} ELSE {})

\* Mutant of CloseUncommitted: closing the connection commits what is pending.
CloseUncommitted_Commits(wrote) ==
    /\ committed' = IF wrote THEN committed + 1 ELSE committed
    /\ UNCHANGED discarded

\* The connection is closed with the statement's effect not committed: the
\* open transaction is rolled back. Only the call with commit=True, the
\* INSERT of save_prompt, writes a row.
CloseUncommitted(wrote) ==
    /\ discarded' = IF wrote THEN discarded + 1 ELSE discarded
    /\ UNCHANGED committed

DbRunFail ==
    /\ db_pc = "open"
    /\ \E e \in DatabaseErrors \cup OtherErrors : db_exc' = e
    /\ \E point \in FailPoints :
        /\ CloseUncommitted(commit /\ point # "statement")
        /\ commit_errors' = IF point = "commit" THEN commit_errors + 1 ELSE commit_errors
    /\ AsyncWithExit
    /\ db_pc' = "handle"
    /\ UNCHANGED <<attempt, fetch_one, fetch_all, commit, last_exception, failures, connects,
                   sleeps, sleep_after, fetched, db_log, db_out, db_calls>>
    /\ UNCHANGED <<brVars, monVars>>

\* Mutant of LoopAdvance: the loop runs range(MAX_RETRIES + 1).
LoopAdvance_OneMore(exc) ==
    IF attempt + 1 < MAX_RETRIES + 1
    THEN /\ attempt' = attempt + 1
         /\ db_pc' = "try"
         /\ UNCHANGED db_out
    ELSE /\ db_pc' = "done"
         /\ db_out' = Raise(ErrExhausted, MAX_RETRIES, exc.msg)
         /\ UNCHANGED attempt

\* Mutant of LoopAdvance: the loop is not bounded by MAX_RETRIES.
LoopAdvance_Unbounded(exc) ==
    /\ attempt' = attempt + 1
    /\ db_pc' = "try"
    /\ UNCHANGED db_out

\* The loop moves on (`continue`, or the except clause fell through): the next
\* attempt, or the raise after the loop when range(MAX_RETRIES) is used up.
LoopAdvance(exc) ==
    IF attempt + 1 < MAX_RETRIES
    THEN /\ attempt' = attempt + 1
         /\ db_pc' = "try"
         /\ UNCHANGED db_out
    ELSE /\ db_pc' = "done"
         /\ db_out' = Raise(ErrExhausted, MAX_RETRIES, exc.msg)
         /\ UNCHANGED attempt

\* await asyncio.sleep(RETRY_DELAY * (2 ** attempt)) begins.
StartSleep ==
    /\ sleeps' = Append(sleeps, BackoffDelay(attempt))
    /\ sleep_after' = Append(sleep_after, connects)
    /\ db_pc' = "sleep"
    /\ UNCHANGED <<attempt, db_out>>

Fail(text, cause) ==
    /\ db_pc' = "done"
    /\ db_out' = Raise(text, 0, cause)
    /\ UNCHANGED <<attempt, sleeps, sleep_after>>

\* Mutant of HandleLocked: a lock on the last attempt raises the generic error.
HandleLocked_LastIsGeneric ==
    /\ last_exception' = db_exc
    /\ db_log' = Append(db_log, LogRec("warning", attempt))
    /\ IF AttemptsRemain(attempt) THEN StartSleep ELSE Fail(ErrGeneric, db_exc.msg)

\* except sqlite3.DatabaseError, "database is locked"
HandleLocked ==
    /\ last_exception' = db_exc
    /\ db_log' = Append(db_log, LogRec("warning", attempt))
    /\ IF AttemptsRemain(attempt)
       THEN StartSleep
       ELSE LoopAdvance(db_exc) /\ UNCHANGED <<sleeps, sleep_after>>

\* Mutant of HandleMalformed: corruption is retried like any database error.
HandleMalformed_Retried ==
    /\ last_exception' = db_exc
    /\ db_log' = Append(db_log, LogRec("error", attempt))
    /\ IF AttemptsRemain(attempt) THEN StartSleep ELSE Fail(ErrGeneric, db_exc.msg)

\* except sqlite3.DatabaseError, "database disk image is malformed"
HandleMalformed ==
    /\ last_exception' = db_exc
    /\ db_log' = Append(db_log, LogRec("error", attempt))
    /\ Fail(ErrCorrupted, <<>>)

\* except sqlite3.DatabaseError, "no such table"
HandleNoTable ==
    /\ last_exception' = db_exc
    /\ db_log' = Append(db_log, LogRec("error", attempt))
    /\ Fail(ErrSchema, <<>>)

\* Mutant of HandleOtherDb: the error ends the call on whichever attempt.
HandleOtherDb_FailsAtOnce ==
    /\ last_exception' = db_exc
    /\ db_log' = Append(db_log, LogRec("error", attempt))
    /\ Fail(ErrGeneric, db_exc.msg)

\* except sqlite3.DatabaseError, any other message
HandleOtherDb ==
    /\ last_exception' = db_exc
    /\ db_log' = Append(db_log, LogRec("error", attempt))
    /\ IF AttemptsRemain(attempt) THEN StartSleep ELSE Fail(ErrGeneric, db_exc.msg)

\* Mutant of HandleFileNotFound: the missing file falls to `except Exception`.
HandleFileNotFound_Retried ==
    /\ last_exception' = db_exc
    /\ db_log' = Append(db_log, LogRec("error", attempt))
    /\ IF AttemptsRemain(attempt) THEN StartSleep ELSE Fail(ErrConnFail, db_exc.msg)

\* except FileNotFoundError
HandleFileNotFound ==
    /\ UNCHANGED last_exception
    /\ db_log' = Append(db_log, LogRec("error", attempt))
    /\ Fail(ErrFile, <<>>)

\* except Exception
HandleUnexpected ==
    /\ last_exception' = db_exc
    /\ db_log' = Append(db_log, LogRec("error", attempt))
    /\ IF AttemptsRemain(attempt) THEN StartSleep ELSE Fail(ErrConnFail, db_exc.msg)

\* The except clauses of the attempt.
DbHandle ==
    /\ db_pc = "handle"
    /\ LET k == Classify(db_exc) IN
        CASE k = "locked"    -> HandleLocked
          [] k = "malformed" -> HandleMalformed
          [] k = "no_table"  -> HandleNoTable
          [] k = "other_db"  -> HandleOtherDb
          [] k = "file"      -> HandleFileNotFound
          [] OTHER           -> HandleUnexpected
    /\ db_exc' = NoExc
    /\ failures' = Append(failures, db_exc)
    /\ UNCHANGED <<fetch_one, fetch_all, commit, conn_open, closes, connects, fetched,
                   committed, discarded, commit_errors, db_calls>>
    /\ UNCHANGED <<brVars, monVars>>

\* The sleep ends and `continue` starts the next iteration.
DbSleepDone ==
    /\ db_pc = "sleep"
    /\ LoopAdvance(last_exception)
    /\ UNCHANGED <<fetch_one, fetch_all, commit, last_exception, db_exc, failures, conn_open,
                   closes, connects, sleeps, sleep_after, fetched, committed, discarded, commit_errors, db_log,
                   db_calls>>
    /\ UNCHANGED <<brVars, monVars>>

DbNext ==
    \/ DbCall
    \/ DbFileMissing
    \/ DbConnect
    \/ DbRunOk
    \/ DbRunFail
    \/ DbHandle
    \/ DbSleepDone

(***************************************************************************)
(* monitoring_service.py: ConnectionManager, the /ws/monitor handler and   *)
(* the tasks that broadcast                                                *)
(***************************************************************************)
Clients == 1..NumClients

\* The broadcast() calls in flight: poll_database_changes and the handlers
\* of POST /api/tasks/{jira_number}/notify.
Broadcasters == 1..NumBroadcasters

\* The elements of a list
Range(q) == {q[i] : i \in 1..Len(q)}

\* list.remove(w) for each w of gone that is in the list
Without(q, gone) == SelectSeq(q, LAMBDA w : w \notin gone)

\* The locals of one broadcast() call: the position of the list iterator, the
\* connection whose send_json is awaited, the list `disconnected`; and, for
\* the properties, the clients the message was sent to and the clients that
\* have been in active_connections ever since the call began.
IdleBroadcast == [pc |-> "idle", idx |-> 1, cur |-> 0, disconnected |-> <<>>,
                  delivered |-> {}, stayed |-> {}]

MonInit ==
    /\ active_connections = <<>>
    /\ link = [w \in Clients |-> "none"]
    /\ mon_pc = [w \in Clients |-> "idle"]
    /\ bc = [b \in Broadcasters |-> IdleBroadcast]

\* The broadcasts under way no longer count the clients of gone as having
\* stayed in the list.
Forget(gone) ==
    [b \in Broadcasters |->
        IF bc[b].pc = "sending" THEN [bc[b] EXCEPT !.stayed = @ \ gone] ELSE bc[b]]

\* ConnectionManager.disconnect(websocket)
ManagerDisconnect(w) ==
    /\ active_connections' = Without(active_connections, {w})
    /\ bc' = Forget({w} \cap Range(active_connections))

\* A client connects to /ws/monitor: manager.connect accepts it and appends
\* it to active_connections; the handler then sends the initial task list.
MonConnect(w) ==
    /\ mon_pc[w] = "idle"
    /\ link[w] = "none"
    /\ link' = [link EXCEPT ![w] = "up"]
    /\ active_connections' = Append(active_connections, w)
    /\ mon_pc' = [mon_pc EXCEPT ![w] = "initial"]
    /\ UNCHANGED bc
    /\ UNCHANGED <<dbVars, brVars>>

\* The send of the initial data completes: the receive loop is entered.
MonInitialSent(w) ==
    /\ mon_pc[w] = "initial"
    /\ link[w] = "up"
    /\ mon_pc' = [mon_pc EXCEPT ![w] = "receiving"]
    /\ UNCHANGED <<active_connections, link, bc>>
    /\ UNCHANGED <<dbVars, brVars>>

\* get_all_tasks raises, or the send of the initial data does: `except
\* Exception` disconnects.
MonInitialFailed(w) ==
    /\ mon_pc[w] = "initial"
    /\ mon_pc' = [mon_pc EXCEPT ![w] = "ended"]
    /\ ManagerDisconnect(w)
    /\ UNCHANGED link
    /\ UNCHANGED <<dbVars, brVars>>

\* receive_text raises WebSocketDisconnect (the client closed), or the
\* message is not JSON, or the reply to it cannot be sent: the except clauses
\* after the loop call manager.disconnect.
MonReceiveFailed(w) ==
    /\ mon_pc[w] = "receiving"
    /\ link[w] \in {"up", "closed"}
    /\ mon_pc' = [mon_pc EXCEPT ![w] = "ended"]
    /\ ManagerDisconnect(w)
    /\ UNCHANGED link
    /\ UNCHANGED <<dbVars, brVars>>

\* No message within 30 s: asyncio.TimeoutError; the keepalive is sent.
MonTimeout(w) ==
    /\ mon_pc[w] = "receiving"
    /\ link[w] \in {"up", "dead"}
    /\ mon_pc' = [mon_pc EXCEPT ![w] = "keepalive"]
    /\ UNCHANGED <<active_connections, link, bc>>
    /\ UNCHANGED <<dbVars, brVars>>

\* The keepalive is sent: the loop goes on.
MonKeepaliveSent(w) ==
    /\ mon_pc[w] = "keepalive"
    /\ link[w] = "up"
    /\ mon_pc' = [mon_pc EXCEPT ![w] = "receiving"]
    /\ UNCHANGED <<active_connections, link, bc>>
    /\ UNCHANGED <<dbVars, brVars>>

\* The keepalive cannot be sent: the bare `except: break` leaves the loop and
\* the handler returns.
MonKeepaliveFailed(w) ==
    /\ mon_pc[w] = "keepalive"
    /\ link[w] # "up"
    /\ mon_pc' = [mon_pc EXCEPT ![w] = "ended"]
    /\ UNCHANGED <<active_connections, link, bc>>
    /\ UNCHANGED <<dbVars, brVars>>

\* The client closes its websocket.
ClientClose(w) ==
    /\ link[w] = "up"
    /\ link' = [link EXCEPT ![w] = "closed"]
    /\ UNCHANGED <<active_connections, mon_pc, bc>>
    /\ UNCHANGED <<dbVars, brVars>>

\* The client goes away without closing: nothing arrives any more and sends
\* to it fail.
ClientDies(w) ==
    /\ link[w] = "up"
    /\ link' = [link EXCEPT ![w] = "dead"]
    /\ UNCHANGED <<active_connections, mon_pc, bc>>
    /\ UNCHANGED <<dbVars, brVars>>

\* `for connection in self.active_connections`: the list iterator yields the
\* element at its index in the list as it is now, or stops (0).
NextConnection(rec) ==
    IF rec.idx <= Len(active_connections) THEN active_connections[rec.idx] ELSE 0

\* The loop of broadcast() moves on from rec: it awaits send_json to the next
\* connection, or, the iterator being exhausted, removes the connections of
\* `disconnected` that are still in the list, and returns.
BroadcastAdvance(b, rec) ==
    IF NextConnection(rec) # 0
    THEN /\ bc' = [bc EXCEPT ![b] = [rec EXCEPT !.cur = NextConnection(rec),
                                                !.idx = rec.idx + 1,
                                                !.pc = "sending"]]
         /\ UNCHANGED active_connections
    ELSE LET gone == Range(rec.disconnected) \cap Range(active_connections)
         IN /\ active_connections' = Without(active_connections, gone)
            /\ bc' = [Forget(gone) EXCEPT ![b] = [rec EXCEPT !.cur = 0, !.pc = "done"]]

\* broadcast(message) is called.
BroadcastStart(b) ==
    /\ bc[b].pc \in {"idle", "done"}
    /\ BroadcastAdvance(b, [IdleBroadcast EXCEPT !.stayed = Range(active_connections)])
    /\ UNCHANGED <<link, mon_pc>>
    /\ UNCHANGED <<dbVars, brVars>>

\* The awaited send_json returns, or raises and the connection is appended to
\* `disconnected`; the loop moves on.
BroadcastSendDone(b) ==
    /\ bc[b].pc = "sending"
    /\ LET w == bc[b].cur
       IN IF link[w] = "up"
          THEN BroadcastAdvance(b, [bc[b] EXCEPT !.delivered = @ \cup {w}])
          ELSE BroadcastAdvance(b, [bc[b] EXCEPT !.disconnected = Append(@, w)])
    /\ UNCHANGED <<link, mon_pc>>
    /\ UNCHANGED <<dbVars, brVars>>

MonNext ==
    \/ \E w \in Clients : MonConnect(w)
    \/ \E w \in Clients : MonInitialSent(w)
    \/ \E w \in Clients : MonInitialFailed(w)
    \/ \E w \in Clients : MonReceiveFailed(w)
    \/ \E w \in Clients : MonTimeout(w)
    \/ \E w \in Clients : MonKeepaliveSent(w)
    \/ \E w \in Clients : MonKeepaliveFailed(w)
    \/ \E w \in Clients : ClientClose(w)
    \/ \E w \in Clients : ClientDies(w)
    \/ \E b \in Broadcasters : BroadcastStart(b)
    \/ \E b \in Broadcasters : BroadcastSendDone(b)

(***************************************************************************)
(* Properties of the monitoring service, checked under MonitorSpec         *)
(***************************************************************************)
\* C25: a broadcast that has returned has sent the message to every client
\* that was in active_connections from its start to its end (it awaited
\* send_json for each of them: the send went through, or failed and the
\* client was put on `disconnected`), whatever other clients connected or
\* were removed meanwhile.
C25_BroadcastSkipsNoClient ==
    \A b \in Broadcasters :
        bc[b].pc = "done" =>
            bc[b].stayed \subseteq (bc[b].delivered \cup Range(bc[b].disconnected))

\* C30: once the /ws/monitor handler of a websocket has ended, by whatever
\* path, the websocket is not in manager.active_connections.
C30_EndedHandlerNotListed ==
    \A w \in Clients :
        mon_pc[w] = "ended" => w \notin Range(active_connections)

(***************************************************************************)
(* Properties of execute_with_retry, checked under DbSpec                  *)
(***************************************************************************)
LockedError    == [cls |-> "DatabaseError", msg |-> MsgLocked]
MalformedError == [cls |-> "DatabaseError", msg |-> MsgMalformed]
NoTableError   == [cls |-> "DatabaseError", msg |-> MsgNoTable]

\* The attempts of this call that failed with exception e
FailedAt(e) == {i \in 1..Len(failures) : failures[i] = e}

RECURSIVE SumSeq(_)
SumSeq(q) == IF q = <<>> THEN 0 ELSE Head(q) + SumSeq(Tail(q))

\* C1: one call of execute_with_retry makes at most MAX_RETRIES physical
\* attempts (connection opens), whatever the attempts' outcomes, and the
\* attempt counter (attempt + 1, as the log prints it) never exceeds MAX_RETRIES.
C1_AtMostMaxRetriesAttempts ==
    /\ connects <= MAX_RETRIES
    /\ attempt + 1 <= MAX_RETRIES
    /\ Len(failures) <= MAX_RETRIES

\* C1 witness: a call that used all MAX_RETRIES attempts has ended.
C1_Witness == db_pc = "done" /\ connects = MAX_RETRIES /\ Len(failures) = MAX_RETRIES

\* C2: when every attempt failed with "database is locked", the call raises
\* the exhausted-retries error naming MAX_RETRIES and the last lock error,
\* after exactly MAX_RETRIES attempts and exactly two sleeps summing to
\* RETRY_DELAY * (1 + 2), none of them after the last attempt.
C2_AllLockedExhausts ==
    (db_pc = "done" /\ db_out.kind = "raise" /\ FailedAt(LockedError) = 1..Len(failures))
        => /\ db_out = [kind |-> "raise", text |-> ErrExhausted,
                        attempts |-> MAX_RETRIES, cause |-> MsgLocked]
           /\ connects = MAX_RETRIES
           /\ Len(failures) = MAX_RETRIES
           /\ Len(sleeps) = 2
           /\ SumSeq(sleeps) = RETRY_DELAY * (1 + 2)
           /\ \A i \in 1..Len(sleep_after) : sleep_after[i] < MAX_RETRIES

\* C2 witness: three attempts, each one locked, and the call has ended.
C2_Witness == db_pc = "done" /\ failures = <<LockedError, LockedError, LockedError>>

\* C3: the i-th sleep of a call, the one before attempt k = i + 1, lasts
\* RETRY_DELAY * 2^(k-2): the first lasts RETRY_DELAY and each next one twice
\* the one before, whichever retryable branch (locked, other database error,
\* unexpected exception) asked for it; and attempt k >= 2 runs only after
\* k - 1 sleeps, the i-th of them taken right after attempt i.
C3_BackoffDoubles ==
    /\ \A i \in 1..Len(sleeps) :
        /\ i = 1 => sleeps[i] = RETRY_DELAY
        /\ i > 1 => sleeps[i] = 2 * sleeps[i - 1] /\ sleeps[i] > sleeps[i - 1]
        /\ sleep_after[i] = i
        /\ failures[i] \notin {MalformedError, NoTableError, FileNotFound}
    /\ db_pc \in {"try", "open", "handle"} => Len(sleeps) = attempt
    /\ db_pc = "sleep" => Len(sleeps) = attempt + 1

\* C3 witness: the third attempt starts after two sleeps asked for by two
\* different retryable branches.
C3_Witness ==
    /\ db_pc = "try"
    /\ attempt = 2
    /\ failures = <<[cls |-> "DatabaseError", msg |-> MsgIO],
                    [cls |-> "Exception", msg |-> MsgNoConn]>>
    /\ sleeps = <<100, 200>>

\* C4: an attempt that fails with "database disk image is malformed" ends the
\* call at once with the corrupted-database error: it is the call's last
\* attempt and no sleep follows it.
C4_MalformedFailsAtOnce ==
    \A i \in FailedAt(MalformedError) :
        /\ i = Len(failures)
        /\ db_pc = "done"
        /\ db_out = [kind |-> "raise", text |-> ErrCorrupted, attempts |-> 0,
                     cause |-> <<>>]
        /\ connects = i
        /\ Len(sleeps) = i - 1

\* C4 witness: corruption met on the first attempt.
C4_Witness == failures = <<MalformedError>> /\ connects = 1 /\ sleeps = <<>>

\* C5: when the database file is missing at the start of an attempt, the call
\* fails at once with the file-not-accessible error, no connection is opened
\* in that attempt and no sleep follows; on the first attempt the call makes
\* zero physical attempts and executes nothing.
C5_MissingFileNotRetried ==
    \A i \in FailedAt(FileNotFound) :
        /\ i = Len(failures)
        /\ db_pc = "done"
        /\ db_out = [kind |-> "raise", text |-> ErrFile, attempts |-> 0, cause |-> <<>>]
        /\ connects = i - 1
        /\ Len(sleeps) = i - 1
        /\ ~conn_open
        /\ i = 1 => connects = 0 /\ sleeps = <<>> /\ fetched = <<>> /\ committed = 0

\* C5 witness: the file is missing when the call starts.
C5_Witness == failures = <<FileNotFound>> /\ db_pc = "done"

\* C6: an attempt that fails with "no such table" ends the call at once with
\* the schema-missing error; that error differs from the corrupted, file,
\* generic, connection-failed and exhausted errors and is raised for no other
\* failure; no sleep and no further attempt follow.
C6_NoTableFailsAtOnce ==
    /\ \A i \in FailedAt(NoTableError) :
        /\ i = Len(failures)
        /\ db_pc = "done"
        /\ db_out.kind = "raise"
        /\ db_out.text = ErrSchema
        /\ db_out.text \notin {ErrCorrupted, ErrFile, ErrGeneric, ErrConnFail, ErrExhausted}
        /\ connects = i
        /\ Len(sleeps) = i - 1
    /\ (db_out.kind = "raise" /\ db_out.text = ErrSchema)
        => failures[Len(failures)] = NoTableError

\* C6 witness: the table is missing on the second attempt, after a lock.
C6_Witness == failures = <<LockedError, NoTableError>> /\ db_pc = "done"

\* C7: a call that returns does so from its last attempt, with the result
\* fetched by that attempt (one row or None for fetch_one, else all rows for
\* fetch_all, else None), with the connection closed, no attempt and no sleep
\* after it; with no failed attempt it returns on attempt 1 without a sleep.
C7_SuccessReturnsFetched ==
    db_out.kind = "return" =>
        /\ db_pc = "done"
        /\ fetch_one =>
            db_out.value = IF Len(fetched) = 0 THEN [shape |-> "none"]
                           ELSE [shape |-> "row", row |-> fetched[1]]
        /\ (~fetch_one /\ fetch_all) => db_out.value = [shape |-> "rows", rows |-> fetched]
        /\ (~fetch_one /\ ~fetch_all) => db_out.value = [shape |-> "none"]
        /\ connects = attempt + 1
        /\ Len(failures) = attempt
        /\ Len(sleeps) = attempt
        /\ ~conn_open
        /\ failures = <<>> => connects = 1 /\ sleeps = <<>>

\* C7 witness: fetch_one on a healthy store returns a single row at once.
C7_Witness ==
    /\ db_out = [kind |-> "return", value |-> [shape |-> "row", row |-> "r1"]]
    /\ fetch_one
    /\ failures = <<>>
    /\ connects = 1

(***************************************************************************)
(* VSCodeBridgeManager                                                     *)
(***************************************************************************)
Callers == 1..NumCallers

\* What the peer can write back: a JSON object of a given "type", or text
\* that json.loads rejects.
Bodies == {"copilot_response", "error", "other", "invalid_json"}

NoSock == 0

NewSock == [open |-> TRUE, peer_open |-> TRUE, wire |-> <<>>, pending |-> {},
            inbox |-> <<>>]

\* The locals of one send_prompt call: its requestId, the socket it sends on
\* and the one it reads from, and, for the properties, the connect() and
\* send() calls it made, the value of is_connected it was entered with and
\* the rows it inserted into jira_tmp_prompts (inject_and_save_prompt only).
IdleCall == [req |-> 0, sock |-> NoSock, rsock |-> NoSock, connects |-> 0,
             sends |-> 0, entered |-> FALSE, rows |-> 0]

\* The transport of socket s of sk is closed, by either end.
ClosedIn(sk, s) == ~sk[s].open \/ ~sk[s].peer_open

Closed(s) == ClosedIn(socks, s)

\* Exceptions raised inside send_prompt; why records the event behind them.
Exc(cls, status, detail, why) ==
    [cls |-> cls, status |-> status, detail |-> detail, why |-> why]

HTTPException(status, detail, why) == Exc("HTTPException", status, detail, why)

DetailUnavailable == "VS Code Copilot bridge is not available."
DetailClosed      == "Connection to VS Code bridge was closed"
DetailTimeout     == "Timeout waiting"
DetailError       == "Error communicating with VS Code bridge:"

ConnectionClosed == Exc("ConnectionClosed", 0, "", "closed")
TimeoutError     == Exc("TimeoutError", 0, "", "timeout")
RecvBusyError    == Exc("RuntimeError", 0, "", "concurrent_recv")
JSONDecodeError  == Exc("JSONDecodeError", 0, "", "invalid_json")

\* The inner try around recv and json.loads: `except asyncio.TimeoutError`
\* raises HTTPException(504); anything else passes through.
InnerHandler(x) ==
    IF x.cls = "TimeoutError" THEN HTTPException(504, DetailTimeout, x.why) ELSE x

\* The except clauses of the outer try, which the exception leaving the inner
\* try reaches as well; HTTPException is an Exception.
\* main.py: `except Exception` raises HTTPException(500) in its place.
OuterHandlerMain(x) ==
    IF x.cls = "ConnectionClosed" THEN HTTPException(503, DetailClosed, x.why)
    ELSE HTTPException(500, DetailError, x.why)

\* main_multi_model.py: `except Exception` logs and re-raises.
OuterHandlerMulti(x) ==
    IF x.cls = "ConnectionClosed" THEN HTTPException(503, DetailClosed, x.why)
    ELSE x

OuterHandler(v, x) == IF v = "main" THEN OuterHandlerMain(x) ELSE OuterHandlerMulti(x)

Raised(x) == [kind |-> "raise", cls |-> x.cls, status |-> x.status,
              detail |-> x.detail, why |-> x.why]

Returned(m) == [kind |-> "return", reply |-> m]

BrInit ==
    /\ variant \in {"main", "multi"}
    /\ ws_client = NoSock
    /\ is_connected = FALSE
    /\ phase = "new"
    /\ socks = <<>>
    /\ pc = [c \in Callers |-> "idle"]
    /\ call = [c \in Callers |-> IdleCall]
    /\ out = [c \in Callers |-> NoOut]
    /\ next_req = 1
    /\ mgr_calls = 0

\* The sockets once websockets.connect has opened one more.
Opened == Append(socks, NewSock)

\* connect(): websockets.connect succeeded; the new socket replaces ws_client.
ConnectSucceeds ==
    /\ Len(socks) < MaxSockets
    /\ ws_client' = Len(Opened)
    /\ is_connected' = TRUE

\* Mutant of ConnectFails: a failed connect() leaves is_connected as it was.
ConnectFails_KeepsFlag ==
    /\ UNCHANGED is_connected
    /\ UNCHANGED ws_client

\* connect(): websockets.connect raised; ws_client keeps its old value.
ConnectFails ==
    /\ is_connected' = FALSE
    /\ UNCHANGED ws_client

\* startup_event: one connect() before any request is served.
Startup ==
    /\ phase = "new"
    /\ phase' = "serving"
    /\ \/ ConnectSucceeds /\ socks' = Opened
       \/ ConnectFails /\ UNCHANGED socks
    /\ UNCHANGED <<variant, pc, call, out, next_req, mgr_calls>>
    /\ UNCHANGED <<dbVars, monVars>>

\* Mutant of Disconnect: the socket is closed but the flag is left alone.
Disconnect_KeepsFlag ==
    /\ phase \in {"serving", "stopped"}
    /\ \A c \in Callers : pc[c] = "idle"
    /\ phase' = IF phase = "serving" THEN "stopped" ELSE "stopped_twice"
    /\ IF ws_client # NoSock
       THEN socks' = [socks EXCEPT ![ws_client].open = FALSE]
       ELSE UNCHANGED socks
    /\ UNCHANGED <<variant, ws_client, is_connected, pc, call, out, next_req, mgr_calls>>
    /\ UNCHANGED <<dbVars, monVars>>

\* disconnect(), called by shutdown_event once no request is being served,
\* and once more after that; phase records how often it has run.
Disconnect ==
    /\ phase \in {"serving", "stopped"}
    /\ \A c \in Callers : pc[c] = "idle"
    /\ phase' = IF phase = "serving" THEN "stopped" ELSE "stopped_twice"
    /\ IF ws_client # NoSock
       THEN /\ socks' = [socks EXCEPT ![ws_client].open = FALSE]
            /\ is_connected' = FALSE
       ELSE UNCHANGED <<socks, is_connected>>
    /\ UNCHANGED <<variant, ws_client, pc, call, out, next_req, mgr_calls>>
    /\ UNCHANGED <<dbVars, monVars>>

\* The sockets sk once request r has been written to socket s.
Written(sk, s, r) ==
    [sk EXCEPT ![s].wire = Append(@, r), ![s].pending = @ \cup {r}]

\* The request is built and ws_client.send is called on the current socket s
\* of sk: send writes the frame unless the connection is closed, and the
\* caller is suspended until the write has drained.
BeginSend(c, s, rec, sk) ==
    /\ call' = [call EXCEPT ![c] = [rec EXCEPT !.req = next_req, !.sock = s,
                                                !.sends = @ + 1]]
    /\ next_req' = next_req + 1
    /\ pc' = [pc EXCEPT ![c] = "sending"]
    /\ socks' = IF ClosedIn(sk, s) THEN sk ELSE Written(sk, s, next_req)

\* Mutant of EntryNeedsConnect: every call reconnects.
EntryNeedsConnect_Always == TRUE

\* `if not self.is_connected:` at the top of send_prompt
EntryNeedsConnect == ~is_connected

\* send_prompt is entered: `if not self.is_connected` awaits connect(),
\* otherwise the try block starts. Callers are interchangeable request
\* slots: a new request takes the lowest free one.
SendPromptEnter(c) ==
    /\ phase = "serving"
    /\ pc[c] = "idle"
    /\ \A d \in Callers : d < c => pc[d] # "idle"
    /\ mgr_calls < MaxCalls
    /\ mgr_calls' = mgr_calls + 1
    /\ out' = [out EXCEPT ![c] = NoOut]
    /\ IF EntryNeedsConnect
       THEN /\ pc' = [pc EXCEPT ![c] = "connecting"]
            /\ call' = [call EXCEPT ![c] = [IdleCall EXCEPT !.entered = is_connected,
                                                            !.connects = 1]]
            /\ UNCHANGED <<next_req, socks>>
       ELSE BeginSend(c, ws_client, [IdleCall EXCEPT !.entered = is_connected], socks)
    /\ UNCHANGED <<variant, ws_client, is_connected, phase>>
    /\ UNCHANGED <<dbVars, monVars>>

\* The awaited connect() returns True: the try block starts.
SendPromptConnected(c) ==
    /\ pc[c] = "connecting"
    /\ ConnectSucceeds
    /\ BeginSend(c, ws_client', call[c], Opened)
    /\ UNCHANGED <<variant, phase, out, mgr_calls>>
    /\ UNCHANGED <<dbVars, monVars>>

\* The awaited connect() returns False: HTTPException(503) outside the try.
SendPromptUnavailable(c) ==
    /\ pc[c] = "connecting"
    /\ ConnectFails
    /\ out' = [out EXCEPT ![c] = Raised(HTTPException(503, DetailUnavailable, "unavailable"))]
    /\ pc' = [pc EXCEPT ![c] = "idle"]
    /\ UNCHANGED <<variant, phase, socks, call, next_req, mgr_calls>>
    /\ UNCHANGED <<dbVars, monVars>>

\* Mutant of TryBlockRaises: no failure marks the manager disconnected.
TryBlockRaises_KeepsConnected(c, x) ==
    /\ UNCHANGED is_connected
    /\ out' = [out EXCEPT ![c] = Raised(OuterHandler(variant, x))]
    /\ pc' = [pc EXCEPT ![c] = "idle"]

\* Mutant of TryBlockRaises: every failure marks the manager disconnected.
TryBlockRaises_AlwaysDisconnects(c, x) ==
    /\ is_connected' = FALSE
    /\ out' = [out EXCEPT ![c] = Raised(OuterHandler(variant, x))]
    /\ pc' = [pc EXCEPT ![c] = "idle"]

\* An exception x leaves the try block of caller c through the except clauses.
TryBlockRaises(c, x) ==
    /\ is_connected' = IF x.cls = "ConnectionClosed" THEN FALSE ELSE is_connected
    /\ out' = [out EXCEPT ![c] = Raised(OuterHandler(variant, x))]
    /\ pc' = [pc EXCEPT ![c] = "idle"]

\* ws_client.send raises ConnectionClosed: the connection was closed when it
\* was called, or was closed before the write had drained.
SendPromptSendClosed(c) ==
    /\ pc[c] = "sending"
    /\ Closed(call[c].sock)
    /\ TryBlockRaises(c, ConnectionClosed)
    /\ UNCHANGED <<variant, ws_client, phase, socks, call, next_req, mgr_calls>>
    /\ UNCHANGED <<dbVars, monVars>>

\* ws_client.send completes. recv() is then called on the current
\* self.ws_client; it refuses a second concurrent reader.
SendPromptSent(c) ==
    /\ pc[c] = "sending"
    /\ ~Closed(call[c].sock)
    /\ IF \E d \in Callers \ {c} : pc[d] = "receiving" /\ call[d].rsock = ws_client
       THEN /\ TryBlockRaises(c, InnerHandler(RecvBusyError))
            /\ UNCHANGED call
       ELSE /\ pc' = [pc EXCEPT ![c] = "receiving"]
            /\ call' = [call EXCEPT ![c].rsock = ws_client]
            /\ UNCHANGED <<is_connected, out>>
    /\ UNCHANGED <<variant, ws_client, phase, socks, next_req, mgr_calls>>
    /\ UNCHANGED <<dbVars, monVars>>

\* Mutant of SendPromptReceived: the caller takes the reply whose requestId is
\* its own and leaves the others unread.
SendPromptReceived_OwnReply(c) ==
    /\ pc[c] = "receiving"
    /\ \E i \in 1..Len(socks[call[c].rsock].inbox) :
        /\ socks[call[c].rsock].inbox[i] = call[c].req
        /\ \E b \in Bodies \ {"invalid_json"} :
            LET s == call[c].rsock
                q == socks[s].inbox
            IN /\ socks' = [socks EXCEPT ![s].inbox = SubSeq(q, 1, i - 1) \o SubSeq(q, i + 1, Len(q))]
               /\ out' = [out EXCEPT ![c] = Returned([re |-> q[i], body |-> b])]
               /\ pc' = [pc EXCEPT ![c] = "idle"]
               /\ UNCHANGED is_connected
    /\ UNCHANGED <<variant, ws_client, phase, call, next_req, mgr_calls>>
    /\ UNCHANGED <<dbVars, monVars>>

\* recv() yields the next inbound message; json.loads parses it or raises.
SendPromptReceived(c) ==
    /\ pc[c] = "receiving"
    /\ socks[call[c].rsock].inbox # <<>>
    /\ \E b \in Bodies :
        LET s == call[c].rsock
            m == [re |-> Head(socks[s].inbox), body |-> b]
        IN /\ socks' = [socks EXCEPT ![s].inbox = Tail(@)]
           /\ IF m.body = "invalid_json"
              THEN TryBlockRaises(c, InnerHandler(JSONDecodeError))
              ELSE /\ out' = [out EXCEPT ![c] = Returned(m)]
                   /\ pc' = [pc EXCEPT ![c] = "idle"]
                   /\ UNCHANGED is_connected
    /\ UNCHANGED <<variant, ws_client, phase, call, next_req, mgr_calls>>
    /\ UNCHANGED <<dbVars, monVars>>

\* asyncio.wait_for gives up: no message arrived within `timeout` seconds.
SendPromptTimeout(c) ==
    /\ pc[c] = "receiving"
    /\ socks[call[c].rsock].inbox = <<>>
    /\ ~Closed(call[c].rsock)
    /\ TryBlockRaises(c, InnerHandler(TimeoutError))
    /\ UNCHANGED <<variant, ws_client, phase, socks, call, next_req, mgr_calls>>
    /\ UNCHANGED <<dbVars, monVars>>

\* recv() finds the connection closed and nothing left to read.
SendPromptRecvClosed(c) ==
    /\ pc[c] = "receiving"
    /\ socks[call[c].rsock].inbox = <<>>
    /\ Closed(call[c].rsock)
    /\ TryBlockRaises(c, InnerHandler(ConnectionClosed))
    /\ UNCHANGED <<variant, ws_client, phase, socks, call, next_req, mgr_calls>>
    /\ UNCHANGED <<dbVars, monVars>>

\* The extension answers one of the requests it has read, in any order. The
\* inbox holds, for each unread reply, the request it answers; what the reply
\* says is drawn when it is read.
PeerReply(s) ==
    /\ ~Closed(s)
    /\ \E r \in socks[s].pending :
        socks' = [socks EXCEPT ![s].pending = @ \ {r}, ![s].inbox = Append(@, r)]
    /\ UNCHANGED <<variant, ws_client, is_connected, phase, pc, call, out, next_req,
                   mgr_calls>>
    /\ UNCHANGED <<dbVars, monVars>>

\* The extension closes the connection; it answers nothing on it afterwards.
PeerClose(s) ==
    /\ ~Closed(s)
    /\ socks' = [socks EXCEPT ![s].peer_open = FALSE, ![s].pending = {}]
    /\ UNCHANGED <<variant, ws_client, is_connected, phase, pc, call, out, next_req,
                   mgr_calls>>
    /\ UNCHANGED <<dbVars, monVars>>

SendPromptStep(c) ==
    \/ SendPromptEnter(c)
    \/ SendPromptConnected(c)
    \/ SendPromptUnavailable(c)
    \/ SendPromptSendClosed(c)
    \/ SendPromptSent(c)
    \/ SendPromptReceived(c)
    \/ SendPromptTimeout(c)
    \/ SendPromptRecvClosed(c)

BrNext ==
    \/ Startup
    \/ Disconnect
    \/ \E c \in Callers : SendPromptEnter(c)
    \/ \E c \in Callers : SendPromptConnected(c)
    \/ \E c \in Callers : SendPromptUnavailable(c)
    \/ \E c \in Callers : SendPromptSendClosed(c)
    \/ \E c \in Callers : SendPromptSent(c)
    \/ \E c \in Callers : SendPromptReceived(c)
    \/ \E c \in Callers : SendPromptTimeout(c)
    \/ \E c \in Callers : SendPromptRecvClosed(c)
    \/ \E s \in 1..Len(socks) : PeerReply(s)
    \/ \E s \in 1..Len(socks) : PeerClose(s)

\* Strictly sequential use of the manager: a send_prompt call is started only
\* when no other call is running.
NoCallRunning == \A c \in Callers : pc[c] = "idle"

SeqSendPromptEnter(c) == NoCallRunning /\ SendPromptEnter(c)

SeqBrNext ==
    \/ Startup
    \/ Disconnect
    \/ \E c \in Callers : SeqSendPromptEnter(c)
    \/ \E c \in Callers : SendPromptConnected(c)
    \/ \E c \in Callers : SendPromptUnavailable(c)
    \/ \E c \in Callers : SendPromptSendClosed(c)
    \/ \E c \in Callers : SendPromptSent(c)
    \/ \E c \in Callers : SendPromptReceived(c)
    \/ \E c \in Callers : SendPromptTimeout(c)
    \/ \E c \in Callers : SendPromptRecvClosed(c)
    \/ \E s \in 1..Len(socks) : PeerReply(s)
    \/ \E s \in 1..Len(socks) : PeerClose(s)

(***************************************************************************)
(* The request handlers that use the manager: POST /api/v1/copilot/chat    *)
(* and POST /api/v1/injectAndSavePrompt                                    *)
(***************************************************************************)
\* One handler of each kind runs at a time, side by side: the chat handler in
\* the first caller slot, the inject handler in the second.
ChatCaller == 1
InjectCaller == 2

\* Prompts are strings over a blank and a letter.
PromptChars == {" ", "a"}

Prompts == UNION {[1..n -> PromptChars] : n \in 0..MaxPromptLen}

\* str.strip(): leading and trailing whitespace removed.
RECURSIVE StripLeft(_)
StripLeft(p) == IF p # <<>> /\ Head(p) = " " THEN StripLeft(Tail(p)) ELSE p

RECURSIVE StripRight(_)
StripRight(p) ==
    IF p # <<>> /\ p[Len(p)] = " " THEN StripRight(SubSeq(p, 1, Len(p) - 1)) ELSE p

Strip(p) == StripRight(StripLeft(p))

\* Mutant of ValidatePrompt: only the length constraint of the field is applied.
ValidatePrompt_LengthOnly(p) ==
    IF Len(p) < 1 THEN [ok |-> FALSE, value |-> <<>>, why |-> "min_length"]
    ELSE [ok |-> TRUE, value |-> p, why |-> ""]

\* PromptRequest.prompt: Field(min_length=1), then validate_prompt, which
\* rejects an empty or whitespace-only value and returns v.strip().
ValidatePrompt(p) ==
    IF Len(p) < 1 THEN [ok |-> FALSE, value |-> <<>>, why |-> "min_length"]
    ELSE IF p = <<>> \/ Strip(p) = <<>>
         THEN [ok |-> FALSE, value |-> <<>>, why |-> "blank"]
         ELSE [ok |-> TRUE, value |-> Strip(p), why |-> ""]

\* The request body fails validation: the framework answers 422 and the
\* handler is not called.
RequestValidationError(why) == Exc("RequestValidationError", 422, "", why)

ChatRejected(p) ==
    /\ phase = "serving"
    /\ pc[ChatCaller] = "idle"
    /\ ~ValidatePrompt(p).ok
    /\ out' = [out EXCEPT ![ChatCaller] = Raised(RequestValidationError(ValidatePrompt(p).why))]
    /\ UNCHANGED <<variant, ws_client, is_connected, phase, socks, pc, call, next_req,
                   mgr_calls>>
    /\ UNCHANGED <<dbVars, monVars>>

\* The body is valid: getCopilotResponseWithVSCodeBridge awaits send_prompt.
ChatAccepted(p) ==
    /\ ValidatePrompt(p).ok
    /\ SendPromptEnter(ChatCaller)

\* A chat request with prompt p arrives.
ChatRequest(p) == ChatRejected(p) \/ ChatAccepted(p)

\* A response model built by a chat handler: CopilotResponse or AIResponse.
ChatResponse(success, why) == [kind |-> "response", success |-> success, why |-> why]

DetailUnexpected == "Unexpected response format from VS Code bridge"

\* getCopilotResponseWithVSCodeBridge (main.py) on the outcome o of its
\* send_prompt call: a reply of type copilot_response is a success, one of
\* type error a response with success false, any other an HTTPException(500);
\* an exception of send_prompt, always an HTTPException here, is re-raised.
\* (A request refused with 422 never reaches the handler.)
GetCopilotResponse(o) ==
    IF o.kind = "return"
    THEN CASE o.reply.body = "copilot_response" -> ChatResponse(TRUE, "copilot_response")
           [] o.reply.body = "error" -> ChatResponse(FALSE, "error")
           [] OTHER -> Raised(HTTPException(500, DetailUnexpected, o.reply.body))
    ELSE IF o.kind = "raise" /\ o.cls \notin {"HTTPException", "RequestValidationError"}
         THEN Raised(HTTPException(500, "Internal server error:", o.why))
         ELSE o

\* chat_with_ai (main_multi_model.py) with model vscode-bridge on the outcome
\* o of its send_prompt call: a reply of type copilot_response sets the text,
\* one of type error raises HTTPException(500), and after the if/elif the
\* handler returns AIResponse(success=True), which a reply of any other type
\* reaches with an empty text; an HTTPException of send_prompt is re-raised,
\* another exception becomes a response with success false.
ChatWithAi(o) ==
    IF o.kind = "return"
    THEN CASE o.reply.body = "copilot_response" -> ChatResponse(TRUE, "copilot_response")
           [] o.reply.body = "error" -> Raised(HTTPException(500, "error", "error"))
           [] OTHER -> ChatResponse(TRUE, o.reply.body)
    ELSE IF o.kind = "raise" /\ o.cls \notin {"HTTPException", "RequestValidationError"}
         THEN ChatResponse(FALSE, o.why)
         ELSE o

\* What the chat handler of variant v answers.
ChatAnswer(v, o) == IF v = "main" THEN GetCopilotResponse(o) ELSE ChatWithAi(o)

\* How inject_and_save_prompt answered: isValidJiraId, isPromptInjectVScode,
\* the event behind the answer, and the error message.
InjectResponse(valid, injected, why) ==
    [kind |-> "inject", valid |-> valid, injected |-> injected, why |-> why,
     error |-> IF valid /\ ~injected THEN "Prompt saved to database"
               ELSE IF ~valid THEN why ELSE "None"]

\* Mutant of InjectInvalid: the handler falls through to the save step.
InjectInvalid_Saves ==
    /\ phase = "serving"
    /\ pc[InjectCaller] = "idle"
    /\ call[InjectCaller].rows < MaxCalls
    /\ out' = [out EXCEPT ![InjectCaller] = InjectResponse(FALSE, FALSE, "invalid")]
    /\ call' = [call EXCEPT ![InjectCaller].rows = @ + 1]
    /\ UNCHANGED <<variant, ws_client, is_connected, phase, socks, pc, next_req,
                   mgr_calls>>
    /\ UNCHANGED <<dbVars, monVars>>

\* The JIRA id is empty after strip(), or check_jira_exists returns False, or
\* it or get_prompt_template raises (a failed read, a missing template): the
\* handler returns before it touches the bridge or the table.
InjectInvalid ==
    /\ phase = "serving"
    /\ pc[InjectCaller] = "idle"
    /\ out' = [out EXCEPT ![InjectCaller] = InjectResponse(FALSE, FALSE, "invalid")]
    /\ UNCHANGED <<variant, ws_client, is_connected, phase, socks, pc, call, next_req,
                   mgr_calls>>
    /\ UNCHANGED <<dbVars, monVars>>

\* save_prompt(jira_id, generated_prompt): the INSERT is committed and True
\* is returned, or execute_with_retry raises, nothing is committed and False
\* is returned.
SavePrompt(ok) == call' = [call EXCEPT ![InjectCaller].rows = IF ok THEN @ + 1 ELSE @]

\* ws_client.send of the fire-and-forget request on socket s of sk.
InjectSend(c, s, rec, sk) ==
    /\ call' = [call EXCEPT ![c] = [rec EXCEPT !.req = next_req, !.sock = s,
                                                !.sends = @ + 1]]
    /\ next_req' = next_req + 1
    /\ pc' = [pc EXCEPT ![c] = "inj_sending"]
    /\ socks' = IF ClosedIn(sk, s) THEN sk ELSE Written(sk, s, next_req)

\* The prompt has been generated: `if not bridge_manager.is_connected` awaits
\* connect(), otherwise the request is sent on the current socket.
InjectEnter ==
    /\ phase = "serving"
    /\ pc[InjectCaller] = "idle"
    /\ mgr_calls < MaxCalls
    /\ mgr_calls' = mgr_calls + 1
    /\ out' = [out EXCEPT ![InjectCaller] = NoOut]
    /\ IF ~is_connected
       THEN /\ pc' = [pc EXCEPT ![InjectCaller] = "inj_connecting"]
            /\ call' = [call EXCEPT ![InjectCaller] =
                            [IdleCall EXCEPT !.entered = is_connected, !.connects = 1]]
            /\ UNCHANGED <<next_req, socks>>
       ELSE InjectSend(InjectCaller, ws_client,
                       [IdleCall EXCEPT !.entered = is_connected], socks)
    /\ UNCHANGED <<variant, ws_client, is_connected, phase>>
    /\ UNCHANGED <<dbVars, monVars>>

\* The awaited connect() returns True: the request is sent on the new socket.
InjectConnected ==
    /\ pc[InjectCaller] = "inj_connecting"
    /\ ConnectSucceeds
    /\ InjectSend(InjectCaller, ws_client', call[InjectCaller], Opened)
    /\ UNCHANGED <<variant, phase, out, mgr_calls>>
    /\ UNCHANGED <<dbVars, monVars>>

\* The awaited connect() returns False: nothing is sent; the prompt is saved
\* and the handler answers isPromptInjectVScode false.
InjectUnavailable ==
    /\ pc[InjectCaller] = "inj_connecting"
    /\ ConnectFails
    /\ \E ok \in BOOLEAN :
          /\ SavePrompt(ok)
          /\ out' = [out EXCEPT ![InjectCaller] = InjectResponse(TRUE, FALSE, "unavailable")]
    /\ pc' = [pc EXCEPT ![InjectCaller] = "idle"]
    /\ UNCHANGED <<variant, phase, socks, next_req, mgr_calls>>
    /\ UNCHANGED <<dbVars, monVars>>

\* send completes: the handler does not wait for a reply; it saves the prompt
\* and answers isPromptInjectVScode true.
InjectSent ==
    /\ pc[InjectCaller] = "inj_sending"
    /\ ~Closed(call[InjectCaller].sock)
    /\ \E ok \in BOOLEAN :
          /\ SavePrompt(ok)
          /\ out' = [out EXCEPT ![InjectCaller] = InjectResponse(TRUE, TRUE, "sent")]
    /\ pc' = [pc EXCEPT ![InjectCaller] = "idle"]
    /\ UNCHANGED <<variant, ws_client, is_connected, phase, socks, next_req,
                   mgr_calls>>
    /\ UNCHANGED <<dbVars, monVars>>

\* send raises (the connection is closed): `except Exception as send_exc`
\* logs a warning and sets is_prompt_injected False, nothing else.
InjectSendFailed ==
    /\ pc[InjectCaller] = "inj_sending"
    /\ Closed(call[InjectCaller].sock)
    /\ \E ok \in BOOLEAN :
          /\ SavePrompt(ok)
          /\ out' = [out EXCEPT ![InjectCaller] = InjectResponse(TRUE, FALSE, "send_failed")]
    /\ pc' = [pc EXCEPT ![InjectCaller] = "idle"]
    /\ UNCHANGED <<variant, ws_client, is_connected, phase, socks, next_req,
                   mgr_calls>>
    /\ UNCHANGED <<dbVars, monVars>>

ApiNext ==
    \/ Startup
    \/ Disconnect
    \/ \E p \in Prompts : ChatRejected(p)
    \/ \E p \in Prompts : ChatAccepted(p)
    \/ SendPromptConnected(ChatCaller)
    \/ SendPromptUnavailable(ChatCaller)
    \/ SendPromptSendClosed(ChatCaller)
    \/ SendPromptSent(ChatCaller)
    \/ SendPromptReceived(ChatCaller)
    \/ SendPromptTimeout(ChatCaller)
    \/ SendPromptRecvClosed(ChatCaller)
    \/ InjectInvalid
    \/ InjectEnter
    \/ InjectConnected
    \/ InjectUnavailable
    \/ InjectSent
    \/ InjectSendFailed
    \/ \E s \in 1..Len(socks) : PeerReply(s)
    \/ \E s \in 1..Len(socks) : PeerClose(s)

\* Strictly sequential use of the two handlers: a request is taken up only
\* when no call on the manager is running.
SeqChatRejected(p) == NoCallRunning /\ ChatRejected(p)

SeqChatAccepted(p) == NoCallRunning /\ ChatAccepted(p)

SeqInjectInvalid == NoCallRunning /\ InjectInvalid

SeqInjectEnter == NoCallRunning /\ InjectEnter

SeqApiNext ==
    \/ Startup
    \/ Disconnect
    \/ \E p \in Prompts : SeqChatRejected(p)
    \/ \E p \in Prompts : SeqChatAccepted(p)
    \/ SendPromptConnected(ChatCaller)
    \/ SendPromptUnavailable(ChatCaller)
    \/ SendPromptSendClosed(ChatCaller)
    \/ SendPromptSent(ChatCaller)
    \/ SendPromptReceived(ChatCaller)
    \/ SendPromptTimeout(ChatCaller)
    \/ SendPromptRecvClosed(ChatCaller)
    \/ SeqInjectInvalid
    \/ SeqInjectEnter
    \/ InjectConnected
    \/ InjectUnavailable
    \/ InjectSent
    \/ InjectSendFailed
    \/ \E s \in 1..Len(socks) : PeerReply(s)
    \/ \E s \in 1..Len(socks) : PeerClose(s)

(***************************************************************************)
(* Properties of send_prompt, checked under BridgeSpec                     *)
(***************************************************************************)
\* Caller c's last call ended with an exception caused by event w.
EndedBy(c, w) == out[c].kind = "raise" /\ out[c].why = w

\* C8: a call whose wait for the reply timed out fails with
\* HTTPException(504, "Timeout waiting ..."), an error the caller can tell
\* from the 503 and 500 errors, with the manager of main.py and with the one
\* of main_multi_model.py.
C8_TimeoutIs504 ==
    \A c \in Callers :
        EndedBy(c, "timeout") =>
            /\ out[c].cls = "HTTPException"
            /\ out[c].status = 504
            /\ out[c].detail = DetailTimeout
            /\ out[c].status \notin {500, 503}

\* C9: one call of send_prompt calls connect() exactly once if is_connected
\* was false when it was entered and never if it was true, and sends at most
\* once, whichever way the call ends.
C9_AtMostOneConnect ==
    \A c \in Callers :
        /\ call[c].connects <= 1
        /\ call[c].sends <= 1
        /\ (pc[c] # "idle" \/ out[c].kind # "none")
            => call[c].connects = IF call[c].entered THEN 0 ELSE 1

\* C9 witness: a call entered disconnected has connected once, sent once and
\* failed on a closed connection.
C9_Witness ==
    \E c \in Callers :
        /\ EndedBy(c, "closed")
        /\ ~call[c].entered
        /\ call[c].connects = 1
        /\ call[c].sends = 1

\* A step of some send_prompt call turns is_connected from true to false.
SendPromptDisconnects ==
    /\ \E c \in Callers : SendPromptStep(c)
    /\ is_connected
    /\ ~is_connected'

\* The timeout of a call changes neither is_connected, nor ws_client, nor
\* any socket.
TimeoutFrame ==
    \A c \in Callers :
        SendPromptTimeout(c) =>
            /\ is_connected' = is_connected
            /\ ws_client' = ws_client
            /\ socks' = socks

\* C10 as claimed: a timeout leaves is_connected, ws_client and the sockets as
\* they were, and a step of send_prompt turns is_connected from true to false
\* only when the transport reports the connection closed.
C10_OnlyClosedDisconnects ==
    [][/\ TimeoutFrame
       /\ SendPromptDisconnects =>
            \E c \in Callers : SendPromptSendClosed(c) \/ SendPromptRecvClosed(c)]_vars

\* C10 as amended: a timeout leaves is_connected, ws_client and the sockets
\* as they were, and a step of send_prompt turns is_connected from true to
\* false only when the transport reports the connection closed or when the
\* call's own connect(), begun while is_connected was false, fails after a
\* concurrent caller's connect() has set it to true.
C10_TimeoutKeepsConnection ==
    [][/\ TimeoutFrame
       /\ SendPromptDisconnects =>
            \E c \in Callers :
                \/ SendPromptSendClosed(c)
                \/ SendPromptRecvClosed(c)
                \/ SendPromptUnavailable(c) /\ ~call[c].entered]_vars

\* C10 witness: a call has ended by timeout, is_connected is still true and
\* the socket it waited on is still ws_client and still open.
C10_Witness ==
    \E c \in Callers :
        /\ EndedBy(c, "timeout")
        /\ pc[c] = "idle"
        /\ is_connected
        /\ call[c].rsock = ws_client
        /\ ~Closed(ws_client)

\* The transport reports the connection closed to caller c, in send or in recv.
ClosedReported(c) == SendPromptSendClosed(c) \/ SendPromptRecvClosed(c)

\* C11: when the transport reports the connection closed while send_prompt
\* is sending or waiting for the reply, the call fails with
\* HTTPException(503, "Connection to VS Code bridge was closed") and
\* is_connected is false when it has failed, with either manager; and a call
\* entered while is_connected is false starts with connect().
C11_ClosedMarksDisconnected ==
    [][\A c \in Callers :
        /\ ClosedReported(c) =>
            /\ out'[c] = Raised(HTTPException(503, DetailClosed, "closed"))
            /\ pc'[c] = "idle"
            /\ ~is_connected'
        /\ (SendPromptEnter(c) /\ ~is_connected) =>
            /\ pc'[c] = "connecting"
            /\ call'[c].connects = 1
            /\ call'[c].sends = 0]_vars

\* C11 witness: a call that was entered connected and had sent its request
\* has failed on the closed connection, and is_connected is false.
C11_Witness ==
    \E c \in Callers :
        /\ EndedBy(c, "closed")
        /\ out[c].status = 503
        /\ call[c].entered
        /\ call[c].sends = 1
        /\ pc[c] = "idle"
        /\ ~is_connected

\* C12: a send_prompt call entered while is_connected is false whose one
\* connect() fails ends with HTTPException(503, "VS Code Copilot bridge is
\* not available ..."); it has written no request to any socket and started
\* no receive, and is_connected is false when it has failed.
C12_UnavailableTouchesNothing ==
    [][\A c \in Callers :
        SendPromptUnavailable(c) =>
            /\ ~call[c].entered
            /\ call[c].connects = 1
            /\ out'[c] = Raised(HTTPException(503, DetailUnavailable, "unavailable"))
            /\ pc'[c] = "idle"
            /\ call'[c].sends = 0
            /\ call'[c].rsock = NoSock
            /\ socks' = socks
            /\ ~is_connected']_vars

\* C12 witness: a call has failed with the 503 of the failed connect(), has
\* sent nothing and read nothing, and is_connected is false.
C12_Witness ==
    \E c \in Callers :
        /\ EndedBy(c, "unavailable")
        /\ out[c].status = 503
        /\ out[c].detail = DetailUnavailable
        /\ call[c].connects = 1
        /\ call[c].sends = 0
        /\ call[c].rsock = NoSock
        /\ ~is_connected

\* C17: disconnect() leaves is_connected false and the socket of ws_client
\* closed from whatever state it is called in (never connected, connected,
\* connect failed, connection already closed), and a second disconnect()
\* changes neither is_connected, nor ws_client, nor any socket.
C17_DisconnectIdempotent ==
    [][Disconnect =>
        /\ ~is_connected'
        /\ ws_client' = ws_client
        /\ ws_client # NoSock => ~socks'[ws_client].open
        /\ \A s \in 1..Len(socks) : s # ws_client => socks'[s] = socks[s]
        /\ phase = "stopped" => /\ ~is_connected
                                /\ socks' = socks]_vars

\* C17 witness: disconnect() has run twice on a manager that had connected;
\* is_connected is false and the socket is closed.
C17_Witness ==
    /\ phase = "stopped_twice"
    /\ ws_client # NoSock
    /\ ~socks[ws_client].open
    /\ ~is_connected

\* C13: under strictly sequential use (SeqBridgeSpec: a call starts only when
\* no other is running, each having ended by a reply, a timeout or an error),
\* a call that returns a message returns the reply to its own request, never
\* the reply to an earlier one.
C13_SequentialCallsGetOwnReply ==
    \A c \in Callers :
        out[c].kind = "return" => out[c].reply.re = call[c].req

\* C14: send_prompt returns the oldest unread message of the socket it reads,
\* whichever request that message answers: no step compares the reply's
\* requestId with the caller's own and no lock keeps a second caller out, so
\* with two concurrent callers one can return the reply to the other's
\* request (the witness).
C14_ReplyIsNextMessage ==
    [][\A c \in Callers :
        (out'[c] # out[c] /\ out'[c].kind = "return") =>
            /\ pc[c] = "receiving"
            /\ socks[call[c].rsock].inbox # <<>>
            /\ out'[c].reply.re = Head(socks[call[c].rsock].inbox)
            /\ socks'[call[c].rsock].inbox = Tail(socks[call[c].rsock].inbox)]_vars

\* C14 witness: caller c has returned the reply to the request of caller d,
\* whose call is still suspended in send.
C14_Witness ==
    \E c \in Callers : \E d \in Callers \ {c} :
        /\ out[c].kind = "return"
        /\ pc[c] = "idle"
        /\ pc[d] = "sending"
        /\ out[c].reply.re = call[d].req
        /\ out[c].reply.re # call[c].req
        /\ call[c].rsock = call[d].sock

(***************************************************************************)
(* Properties of the request handlers, checked under ApiSpec               *)
(***************************************************************************)
\* Every character of p is a blank; the empty prompt included.
Blank(p) == \A i \in 1..Len(p) : p[i] = " "

\* C19: a chat request whose prompt is empty or whitespace-only is answered
\* 422 before the handler runs: no connect() is made, nothing is written to a
\* socket, no database call is made, and ws_client, is_connected and the
\* sockets are as they were.
C19_BlankPromptRejected ==
    [][\A p \in Prompts :
        (Blank(p) /\ ChatRequest(p)) =>
            /\ out'[ChatCaller].kind = "raise"
            /\ out'[ChatCaller].status = 422
            /\ UNCHANGED <<ws_client, is_connected, socks, pc, call, next_req, mgr_calls>>
            /\ UNCHANGED <<dbVars, monVars>>]_vars

\* C19 witness: a whitespace-only prompt has been answered 422 while the
\* manager was connected, and no send_prompt call has been started.
C19_Witness ==
    /\ out[ChatCaller].kind = "raise"
    /\ out[ChatCaller].status = 422
    /\ out[ChatCaller].why = "blank"
    /\ pc[ChatCaller] = "idle"
    /\ call[ChatCaller] = IdleCall
    /\ is_connected
    /\ mgr_calls = 0

\* The sockets the manager has opened that neither end has closed.
OpenSockets == {s \in 1..Len(socks) : ~Closed(s)}

\* C15: whatever the interleaving of the startup connect(), the chat and
\* inject handlers and the shutdown disconnect(), at most one socket opened
\* by the manager is open, and an open socket is the one ws_client refers to.
C15_AtMostOneOpenSocket ==
    /\ Cardinality(OpenSockets) <= 1
    /\ \A s \in OpenSockets : s = ws_client

\* A connect() of the manager succeeds, or fails, in this step.
ConnectSucceeded == Len(socks') = Len(socks) + 1

ConnectFailed ==
    \/ Startup /\ socks' = socks
    \/ \E c \in Callers : SendPromptUnavailable(c)
    \/ InjectUnavailable

\* A caller observes a close or a send/receive error on the connection: send
\* or recv reports it closed, recv refuses the caller, or the send of the
\* inject handler fails.
ErrorObserved ==
    \/ \E c \in Callers : ClosedReported(c)
    \/ \E c \in Callers : SendPromptSent(c) /\ out'[c].kind = "raise"
    \/ InjectSendFailed

\* disconnect() closes the connection.
ClosedByDisconnect == Disconnect /\ ws_client # NoSock

\* C16: is_connected is true exactly when the most recent connect()
\* succeeded and no close and no send or receive error has been observed
\* since: a successful connect() sets it, a failed connect(), a close and an
\* observed error (in send_prompt or in inject_and_save_prompt) clear it, and
\* nothing else changes it.
C16_FlagTracksConnection ==
    [][/\ ConnectSucceeded => is_connected'
       /\ (ConnectFailed \/ ErrorObserved \/ ClosedByDisconnect) => ~is_connected'
       /\ ~(ConnectSucceeded \/ ConnectFailed \/ ErrorObserved \/ ClosedByDisconnect)
            => is_connected' = is_connected]_vars

(***************************************************************************)
(* Properties of execute_with_retry: connections and log records           *)
(***************************************************************************)
\* C18: a database connection opened by an attempt is closed on every way
\* out of that attempt, before the except clause runs: none is open while the
\* call handles an error, sleeps, starts the next attempt or has ended, and
\* every connection the call opened has then been closed.
C18_ConnectionClosedOnExit ==
    /\ conn_open => db_pc = "open"
    /\ db_pc \in {"handle", "sleep", "try", "done"} =>
        /\ ~conn_open
        /\ closes <= connects
        /\ closes <= attempt + 1
    /\ db_pc = "open" => closes < connects

\* C18 witness: the call sleeps before a retry after an attempt whose
\* connection was opened and closed.
C18_Witness ==
    /\ db_pc = "sleep"
    /\ closes >= 1
    /\ ~conn_open

\* C20: a call that has ended has logged one record per failed attempt, in
\* order; the record of an attempt that was retried (a backoff sleep followed
\* it) is a warning, and a call that ended by raising has logged its last
\* failure, the terminal one, at error level.
C20_LogLevelFollowsRetry ==
    db_pc = "done" =>
        /\ Len(db_log) = Len(failures)
        /\ \A i \in 1..Len(db_log) :
            /\ db_log[i].attempt = i - 1
            /\ i <= Len(sleeps) => db_log[i].level = "warning"
        /\ db_out.kind = "raise" =>
            /\ db_log # <<>>
            /\ db_log[Len(db_log)].level = "error"

\* The database errors that are neither a lock, nor a corruption, nor a
\* missing-schema error.
OtherDbErrors ==
    {[cls |-> "DatabaseError", msg |-> m] : m \in {MsgTableLocked, MsgIO, MsgCantOpen}}

\* C21: an attempt that fails with a database error that is neither a lock,
\* a corruption nor a missing-schema error is retried after the backoff a
\* lock would get (RETRY_DELAY * 2^attempt) while attempts remain; on the
\* last attempt the call fails at once with the generic "Database error:"
\* carrying that error's message.
C21_OtherDbErrorRetried ==
    \A i \in 1..Len(failures) :
        failures[i] \in OtherDbErrors =>
            /\ i < MAX_RETRIES =>
                /\ Len(sleeps) >= i
                /\ sleeps[i] = RETRY_DELAY * Pow2(i - 1)
                /\ sleep_after[i] = i
                /\ ~(db_out.kind = "raise" /\ Len(failures) = i)
            /\ i = MAX_RETRIES =>
                /\ db_pc = "done"
                /\ db_out = [kind |-> "raise", text |-> ErrGeneric, attempts |-> 0,
                             cause |-> failures[i].msg]
                /\ Len(sleeps) = MAX_RETRIES - 1

\* C21 witness: three attempts failed with a disk I/O error; two sleeps were
\* taken and the call has ended with the generic database error.
C21_Witness ==
    /\ db_pc = "done"
    /\ failures = <<[cls |-> "DatabaseError", msg |-> MsgIO],
                    [cls |-> "DatabaseError", msg |-> MsgIO],
                    [cls |-> "DatabaseError", msg |-> MsgIO]>>
    /\ sleeps = <<100, 200>>
    /\ db_out.kind = "raise"
    /\ db_out.text = ErrGeneric
    /\ db_out.cause = MsgIO

\* The errors execute_with_retry retries: a lock, another database error that
\* is neither corruption nor missing schema, an unexpected exception.
TransientErrors == {LockedError} \cup OtherDbErrors \cup OtherErrors

\* The call used up all MAX_RETRIES attempts, each failing on a transient error.
ExhaustedOnTransient ==
    /\ db_pc = "done"
    /\ db_out.kind = "raise"
    /\ Len(failures) = MAX_RETRIES
    /\ \A i \in 1..Len(failures) : failures[i] \in TransientErrors

\* C22 as claimed: a call that used up all MAX_RETRIES attempts on transient
\* errors, in any mix, fails with the exhausted-retries error, which names
\* MAX_RETRIES and wraps the cause of the last attempt.
C22_ExhaustedOnAnyMix ==
    ExhaustedOnTransient =>
        db_out = [kind |-> "raise", text |-> ErrExhausted, attempts |-> MAX_RETRIES,
                  cause |-> failures[MAX_RETRIES].msg]

\* C22 as amended: a call that used up all MAX_RETRIES attempts on transient
\* errors fails with an error that wraps the cause of the last attempt; it is
\* the exhausted-retries error naming MAX_RETRIES when the last attempt
\* failed on a lock, the generic database error when it failed on another
\* database error, and the connection-failed error when it failed on an
\* unexpected exception.
C22_ExhaustedWhenLastIsLock ==
    ExhaustedOnTransient =>
        LET last == failures[MAX_RETRIES] IN
        /\ db_out.cause = last.msg
        /\ last = LockedError =>
            /\ db_out.text = ErrExhausted
            /\ db_out.attempts = MAX_RETRIES
        /\ last \in OtherDbErrors => db_out.text = ErrGeneric
        /\ last \in OtherErrors => db_out.text = ErrConnFail
        /\ Len(sleeps) = MAX_RETRIES - 1

\* C22 witness: two attempts failed on other transient errors, the third on
\* a lock, and the call has ended with the exhausted-retries error.
C22_Witness ==
    /\ ExhaustedOnTransient
    /\ failures = <<[cls |-> "DatabaseError", msg |-> MsgIO],
                    [cls |-> "Exception", msg |-> MsgNoConn],
                    LockedError>>
    /\ db_out.text = ErrExhausted
    /\ db_out.attempts = MAX_RETRIES
    /\ db_out.cause = MsgLocked

\* A call of execute_with_retry is running.
DbRunning == db_pc \in {"try", "open", "handle", "sleep"}

\* C24: every call of execute_with_retry ends, by a return or a raise,
\* provided each attempt and each backoff sleep ends (DbFairSpec); the loop
\* is re-entered at most MAX_RETRIES - 1 times, and a call whose last
\* attempt failed has raised.
C24_CallTerminates ==
    /\ DbRunning ~> (db_pc = "done" /\ db_out.kind \in {"return", "raise"})
    /\ [](attempt <= MAX_RETRIES - 1)
    /\ []((db_pc = "done" /\ Len(failures) = MAX_RETRIES) => db_out.kind = "raise")

\* C24 witness: a call has ended by a raise after MAX_RETRIES failed attempts
\* and MAX_RETRIES - 1 sleeps.
C24_Witness ==
    /\ db_pc = "done"
    /\ db_out.kind = "raise"
    /\ attempt = MAX_RETRIES - 1
    /\ Len(failures) = MAX_RETRIES
    /\ Len(sleeps) = MAX_RETRIES - 1

\* C29: for the INSERT run with commit=True, whatever the failures of the
\* attempts (a failure in db.commit() included), the row is committed exactly
\* once when the call has returned and not at all when it has raised; at no
\* time has the call committed more than one row.
C29_CommittedExactlyOnce ==
    /\ committed <= 1
    /\ ~commit => committed = 0
    /\ (commit /\ db_pc = "done" /\ db_out.kind = "return") => committed = 1
    /\ (commit /\ db_pc = "done" /\ db_out.kind = "raise") => committed = 0
    /\ (commit /\ db_pc # "done") => committed = 0

\* C29 witness: the call has returned with one row committed, after an
\* attempt whose db.commit() raised and whose inserted row was lost.
C29_Witness ==
    /\ commit
    /\ db_pc = "done"
    /\ db_out.kind = "return"
    /\ committed = 1
    /\ commit_errors >= 1
    /\ discarded >= 1
    /\ Len(failures) >= 1

(***************************************************************************)
(* Properties of inject_and_save_prompt, checked under ApiSpec             *)
(***************************************************************************)
\* The inject handler answers in this step.
InjectAnswers == out'[InjectCaller] # out[InjectCaller] /\ out'[InjectCaller].kind = "inject"

\* C26: when the JIRA id is not found, or the existence check or the template
\* lookup raises, inject_and_save_prompt answers isValidJiraId false and
\* isPromptInjectVScode false, and an answer with isValidJiraId false comes
\* with nothing else changed: no connect is attempted, nothing is written to
\* the bridge, no row is inserted into jira_tmp_prompts.
C26_InvalidIdTouchesNothing ==
    [][(InjectInvalid => (~out'[InjectCaller].valid /\ ~out'[InjectCaller].injected))
       /\ ((InjectAnswers /\ ~out'[InjectCaller].valid) =>
              (/\ ~out'[InjectCaller].injected
               /\ UNCHANGED <<ws_client, is_connected, socks, pc, call, next_req,
                              mgr_calls, phase>>))]_vars

\* An id that is not in jira_dashboard has been answered while the bridge was
\* down and prompts of earlier requests were in the table.
C26_Witness ==
    /\ out[InjectCaller].kind = "inject"
    /\ out[InjectCaller].why = "invalid"
    /\ ~out[InjectCaller].valid
    /\ ~is_connected
    /\ phase = "serving"
    /\ call[InjectCaller].rows > 0

\* C27: an answer of inject_and_save_prompt that says "Prompt saved to
\* database" (valid id, prompt not injected) is given only when save_prompt
\* returned True, the row being committed by that request.
C27_SavedMessageMeansSaved ==
    [][(InjectAnswers /\ out'[InjectCaller].error = "Prompt saved to database")
          => call'[InjectCaller].rows = call[InjectCaller].rows + 1]_vars

\* C23: under strictly sequential use of the two handlers (SeqApiSpec), the
\* message a send_prompt call returns is never the peer's reply to the request
\* that inject_and_save_prompt wrote before it: a request's reply is consumed
\* by the operation that sent the request, or by none.
C23_InjectReplyNotConsumed ==
    (out[ChatCaller].kind = "return" /\ call[InjectCaller].sends > 0)
        => out[ChatCaller].reply.re # call[InjectCaller].req

(***************************************************************************)
(* Properties of the chat handlers, checked under ApiSpec                  *)
(***************************************************************************)
\* C28: chat_with_ai of main_multi_model.py (model vscode-bridge) answers
\* success = true only when the reply of the bridge has type
\* "copilot_response"; a reply of type "error", or of another or no type,
\* never yields success = true.
C28_SuccessOnlyForCopilotResponse ==
    (variant = "multi" /\ ChatAnswer(variant, out[ChatCaller]).kind = "response"
                       /\ ChatAnswer(variant, out[ChatCaller]).success)
        => (out[ChatCaller].kind = "return"
            /\ out[ChatCaller].reply.body = "copilot_response")

(***************************************************************************)
(* Specifications: each component runs with the other at rest.             *)
(***************************************************************************)
DbSpecInit == DbInit /\ BrInit /\ MonInit /\ variant = "main"
DbSpec == DbSpecInit /\ [][DbNext]_vars

\* A step of a running call: an attempt, its except clause, or the end of a
\* sleep. Under DbFairSpec none of them is postponed for ever.
DbStep == DbFileMissing \/ DbConnect \/ DbRunOk \/ DbRunFail \/ DbHandle \/ DbSleepDone

DbFairSpec == DbSpec /\ WF_vars(DbStep)

BridgeInit == BrInit /\ DbInit /\ MonInit
BridgeSpec == BridgeInit /\ [][BrNext]_vars

SeqBridgeSpec == BridgeInit /\ [][SeqBrNext]_vars

ApiSpec == BridgeInit /\ [][ApiNext]_vars

SeqApiSpec == BridgeInit /\ [][SeqApiNext]_vars

MonitorSpec == DbSpecInit /\ [][MonNext]_vars
====
